---- MODULE Spec2Model ----
(***************************************************************************)
(* A model of mkvtag's file lifecycle engine: the File record (file.py),   *)
(* the MkvTagger status log, scan/merge, and process_file state machine    *)
(* (tagger.py), together with the environment they run in (the watched     *)
(* directory, the clock, the external tagging command, filesystem events). *)
(*                                                                         *)
(* Time is in whole seconds.  A file name is the sequence of its tokens,   *)
(* so that the cleanup pattern can strip the tokens it matches.            *)
(***************************************************************************)
EXTENDS Integers, Sequences, FiniteSets, TLC

VARIABLES
    now,           \* time.time()
    disk,          \* the *.mkv files of watch_dir: name -> [ex, size, mtime]
    log,           \* content of the log file: name -> JSON record
    logFile,       \* the log file: "ok" (a JSON object), "bad", "none"
    locked,        \* LOG_FILE_LOCK.locked()
    logData,       \* MkvTagger._log_data
    files,         \* MkvTagger.files: name -> File object
    isProcessing,  \* MkvTagger._is_processing
    activeFile,    \* MkvTagger._active_file
    errTs,         \* MkvTagger._error_state_timestamp
    cfg,           \* arguments and terminal: [clean, precheck, tty, exc]
    pc,            \* per thread: where it stands inside process_file
    loc,           \* per thread: the File object at hand, [f, shared]
    writes,        \* how many times the environment has written a file
    obs,           \* what the last step did (observation only)
    gaveUp,        \* history: the files on disk whose command failed 3 times
    chk            \* history: the last stability check [name, at, size]

vars == <<now, disk, log, logFile, locked, logData, files, isProcessing,
          activeFile, errTs, cfg, pc, loc, writes, obs, gaveUp, chk>>

----------------------------------------------------------------------------
(* Bounds of the model *)

MaxSize == 2        \* file sizes are 1..MaxSize bytes
MaxElapsed == 1     \* the clock runs from Start to Start + MaxElapsed
MaxFc == 4          \* failed_count is followed up to this value
MaxWrites == 2      \* the environment writes files at most this often

(* Program constants *)

GIVE_UP == 3        \* failed_count >= 3: no more retries
RESET_AGE == 60     \* scan(reset=True): mtime older than a minute
TOO_OLD == 86400    \* scan: a gone record older than a day is pruned
WAIT == 1           \* args.wait, seconds a file must be left alone
TIMER == 1          \* args.timer, the polling interval

Start == TOO_OLD + RESET_AGE

Pattern == {"x264"}             \* the tokens args.clean matches
Names == {<<"a">>, <<"a", "x264">>}
NoName == <<>>
Written == {<<"a", "x264">>}    \* the files the environment writes
Threads == {"poll", "event"}

Status == {"new", "waiting", "ready", "processing", "done", "failed", "gone"}

----------------------------------------------------------------------------
(* Finite maps *)

Empty == [x \in {} |-> 0]

Put(f, k, v) == [x \in DOMAIN f \cup {k} |-> IF x = k THEN v ELSE f[x]]

Drop(f, k) == [x \in DOMAIN f \ {k} |-> f[x]]

----------------------------------------------------------------------------
(* The directory *)

Absent == [ex |-> FALSE, size |-> 0, mtime |-> 0]

DirNames(d) == {n \in Names : d[n].ex}

----------------------------------------------------------------------------
(* file.py: class File *)

NewFile(d, n) ==
    [path |-> n, orig |-> n,
     mtime |-> IF d[n].ex THEN d[n].mtime ELSE 0,
     lmtime |-> IF d[n].ex THEN d[n].mtime ELSE 0,
     size |-> IF d[n].ex THEN d[n].size ELSE 0,
     lsize |-> IF d[n].ex THEN d[n].size ELSE 0,
     status |-> "new", fc |-> 0]

(* The mtime property: the value it returns, and the object afterwards.    *)
(* The shift of _mtime into _last_mtime happens before stat() can raise.   *)
ShiftMtime(f) == IF f.mtime # f.lmtime THEN [f EXCEPT !.lmtime = f.mtime] ELSE f

MtimeVal(d, f) ==
    IF d[f.path].ex THEN d[f.path].mtime
    ELSE IF f.mtime # 0 THEN f.mtime ELSE ShiftMtime(f).lmtime

AfterMtime(d, f) ==
    IF d[f.path].ex THEN [ShiftMtime(f) EXCEPT !.mtime = d[f.path].mtime]
    ELSE ShiftMtime(f)

(* The size property, likewise. *)
ShiftSize(f) == IF f.size # f.lsize THEN [f EXCEPT !.lsize = f.size] ELSE f

SizeVal(d, f) ==
    IF d[f.path].ex THEN d[f.path].size
    ELSE IF f.size # 0 THEN f.size ELSE ShiftSize(f).lsize

AfterSize(d, f) ==
    IF d[f.path].ex THEN [ShiftSize(f) EXCEPT !.size = d[f.path].size]
    ELSE ShiftSize(f)

(* size_changed_since_last_check: _last_size is read first, then size. *)
SizeChanged(d, f) == f.lsize # SizeVal(d, f)

(* was_recently_modified *)
RecentlyModified(d, f) == now - MtimeVal(d, f) < WAIT

(* "was_recently_modified or size_changed_since_last_check": the size is   *)
(* looked at only when the file was not recently modified.                 *)
Unstable(d, f) == RecentlyModified(d, f) \/ SizeChanged(d, AfterMtime(d, f))

AfterUnstable(d, f) ==
    IF RecentlyModified(d, f) THEN AfterMtime(d, f)
    ELSE AfterSize(d, AfterMtime(d, f))

(* clean_name: every token the pattern matches is stripped. *)
IsPattern(tok) == tok \in Pattern

Keep(tok) == ~IsPattern(tok)

CleanName(n) == IF cfg.clean THEN SelectSeq(n, Keep) ELSE n

HasPattern(n) == \E i \in 1..Len(n) : IsPattern(n[i])

(* A text form that does not come back as the second it was made from *)
FromIsoDrift(s) == s[2] + 1

(* datetime.fromtimestamp(t).isoformat() and datetime.fromisoformat(s)     *)
(* .timestamp(): the text keeps whole seconds and microseconds, so on      *)
(* whole seconds the text names the second itself.                         *)
ToIso(t) == <<"iso", t>>

FromIso(s) == s[2]

(* to_json, and the object after the two properties were read *)
ToJson(d, f) ==
    [name |-> f.path, mtime |-> ToIso(MtimeVal(d, f)), size |-> SizeVal(d, f),
     failed_count |-> f.fc, status |-> f.status]

AfterJson(d, f) == AfterSize(d, AfterMtime(d, f))

(* from_json *)
FromJson(r) ==
    [path |-> r.name, orig |-> r.name,
     mtime |-> FromIso(r.mtime), lmtime |-> FromIso(r.mtime),
     size |-> r.size, lsize |-> r.size,
     status |-> r.status, fc |-> r.failed_count]

----------------------------------------------------------------------------
(* tagger.py: class MkvTagger.                                             *)
(*                                                                         *)
(* The operators below work on a record m that holds the tagger's state    *)
(* while one handler runs:                                                 *)
(*   files, ld (_log_data), log (the log file), disk, errTs,               *)
(*   lstate (the log file is "ok", "bad": not one JSON object, "none":     *)
(*   missing), lock (LOG_FILE_LOCK is held), raised (an exception is on    *)
(*   its way out of the handler),                                          *)
(*   proc (_is_processing), active (_active_file),                         *)
(*   f (the File object at hand), shared (f is the object files[f.path]),  *)
(*   ran, res (the file the tagging command ran on, and how it ended),     *)
(*   ret (the handler has returned).                                       *)

(* error_state *)
ErrorState(m) == now - m.errTs < TIMER

(* logged_files: File objects made afresh from _log_data on every access *)
LoggedFiles(m) ==
    IF ErrorState(m) THEN Empty
    ELSE [n \in {m.ld[k].name : k \in DOMAIN m.ld} |->
            FromJson(m.ld[CHOOSE k \in DOMAIN m.ld : m.ld[k].name = n])]

(* "with LOG_FILE_LOCK:", entered and left (also by an exception) *)
Acquire(m) == [m EXCEPT !.lock = TRUE]

Release(m) == [m EXCEPT !.lock = FALSE]

(* An exception leaves the handler: nothing more of it runs *)
Raise(m) == [m EXCEPT !.raised = TRUE, !.ret = TRUE]

(* handle_json_error before its "if self.exc: raise" *)
ErrorBegins(m, autofix) ==
    [m EXCEPT !.errTs = now,
              !.ld = IF autofix THEN Empty ELSE @,
              !.log = IF autofix THEN Empty ELSE @,
              !.lstate = IF autofix THEN "none" ELSE @]

(* handle_json_error that never raises the error again *)
HandleJsonErrorSwallow(m, autofix) ==
    [m EXCEPT !.errTs = now,
              !.ld = IF autofix THEN Empty ELSE @,
              !.log = IF autofix THEN Empty ELSE @,
              !.lstate = IF autofix THEN "none" ELSE @]

(* handle_json_error that starts the error state and repairs nothing *)
HandleJsonErrorNoFix(m, autofix) ==
    IF cfg.exc THEN Raise([m EXCEPT !.errTs = now])
    ELSE [m EXCEPT !.errTs = now]

(* handle_json_error: the error state begins; with autofix the cache is    *)
(* emptied and the log file removed, and the read_log that follows finds   *)
(* the error state and returns; with exc the error is raised again.        *)
HandleJsonError(m, autofix) ==
    IF cfg.exc THEN Raise(ErrorBegins(m, autofix))
    ELSE ErrorBegins(m, autofix)

(* read_log: a missing log file is created as {}; a log that is not one    *)
(* JSON object goes to handle_json_error.                                  *)
ReadLog(m) ==
    IF m.raised \/ ErrorState(m) THEN m
    ELSE IF m.lstate = "none"
         THEN Release([Acquire(m) EXCEPT !.log = Empty, !.lstate = "ok",
                                         !.ld = Empty])
    ELSE IF m.lstate = "bad" THEN Release(HandleJsonError(Acquire(m), TRUE))
    ELSE Release([Acquire(m) EXCEPT !.ld = m.log])

(* File.save_to_log: the whole log is rewritten from logged_files, with    *)
(* this file's record replaced; to_json stats every file again.            *)
(* save_to_log, lines 241-246: the records of lf2 are written, each under  *)
(* the name of its file                                                    *)
WriteLog(m, lf2) ==
    Release([Acquire(m) EXCEPT
        !.lstate = "ok",
        !.log = [n \in {lf2[k].path : k \in DOMAIN lf2} |->
          ToJson(m.disk, lf2[CHOOSE k \in DOMAIN lf2 : lf2[k].path = n])]])

(* save_to_log, lines 229-239: logged_files with f put in and the record   *)
(* of its original name taken out                                          *)
WithSelf(lf, f) ==
    IF f.orig # f.path THEN Drop(Put(lf, f.path, f), f.orig)
    ELSE Put(lf, f.path, f)

(* save_to_log that writes nothing *)
SaveSkipped(m) == m

SaveToLog(m) == WriteLog(m, WithSelf(LoggedFiles(m), m.f))

(* Reject rules that do not hold back a waiting file *)
AcceptedFromWaiting(logged, value) ==
    IF \/ logged \in {"done", "gone"} /\ value # "new"
       \/ logged = "processing" /\ value \notin {"done", "ready", "failed"}
       \/ logged = "failed" /\ value \notin {"new", "ready"}
    THEN logged
    ELSE value

(* The status setter's reject rules: the status that is stored when the    *)
(* log holds `logged` and `value` is asked for.                            *)
Accepted(logged, value) ==
    IF \/ logged \in {"done", "gone"} /\ value # "new"
       \/ logged = "waiting" /\ value \notin {"done", "ready", "processing"}
       \/ logged = "processing" /\ value \notin {"done", "ready", "failed"}
       \/ logged = "failed" /\ value \notin {"new", "ready"}
    THEN logged
    ELSE value

(* File.status setter, lines 126-158: the value is checked against the     *)
(* logged status and stored in the object, in self.files and in _log_data. *)
(* lines 126-153: the value that is stored for file n *)
StoredValue(lf, n, value) ==
    IF n \in DOMAIN lf THEN Accepted(lf[n].status, value) ELSE value

(* lines 154-156: a stored failed is counted *)
WithStatus(f, v) ==
    [f EXCEPT !.fc = IF v = "failed" THEN @ + 1 ELSE @, !.status = v]

(* lines 157-158: to_json stats the file *)
Stored(m1, n, f1) ==
    [m1 EXCEPT !.f = AfterJson(m1.disk, f1),
               !.files = Put(@, n, AfterJson(m1.disk, f1)),
               !.shared = TRUE,
               !.ld = Put(@, n, ToJson(m1.disk, f1))]

SetStore(m1, value) ==
    Stored(m1, m1.f.path,
           WithStatus(m1.f, StoredValue(LoggedFiles(m1), m1.f.path, value)))

(* File.status setter: read_log, lines 126-158, save_to_log *)
StoreAndSave(m1, value) ==
    IF m1.raised THEN m1 ELSE SaveToLog(SetStore(m1, value))

SetStatus(m, value) == StoreAndSave(ReadLog(m), value)

(* A write to a field of the File object at hand (no setter involved) *)
SetF(m, f2) ==
    [m EXCEPT !.f = f2,
              !.files = IF m.shared THEN Put(@, f2.path, f2) ELSE @]

(* scan whose reset pass does not ask for the number of failures *)
MergedResetsGivenUp(m, reset) ==
    LET d == m.disk
        dir == DirNames(d)
        lf == LoggedFiles(m)
        base == [n \in DOMAIN lf \cup dir |->
                    IF n \in DOMAIN lf THEN lf[n] ELSE NewFile(d, n)]
        st(n) == IF n \in DOMAIN m.files
                    /\ m.files[n].status \in {"done", "gone"}
                 THEN m.files[n].status
                 ELSE IF n \notin dir THEN "gone" ELSE base[n].status
        marked == [n \in DOMAIN base |-> [base[n] EXCEPT !.status = st(n)]]
        tooOld(f) == f.status = "gone" /\ now - MtimeVal(d, f) > TOO_OLD
        aged(f) == IF f.status = "gone" THEN AfterMtime(d, f) ELSE f
        kept == {n \in DOMAIN marked : ~tooOld(marked[n])}
        back(f) ==
            IF reset /\ f.status \notin {"done", "gone"} /\ d[f.path].ex
            THEN [AfterMtime(d, f) EXCEPT !.status =
                    IF now - MtimeVal(d, f) > RESET_AGE THEN "new" ELSE @]
            ELSE f
    IN  [n \in kept |-> back(aged(marked[n]))]

(* scan whose reset pass spares gone records only *)
MergedResetsDone(m, reset) ==
    LET d == m.disk
        dir == DirNames(d)
        lf == LoggedFiles(m)
        base == [n \in DOMAIN lf \cup dir |->
                    IF n \in DOMAIN lf THEN lf[n] ELSE NewFile(d, n)]
        st(n) == IF n \in DOMAIN m.files
                    /\ m.files[n].status \in {"done", "gone"}
                 THEN m.files[n].status
                 ELSE IF n \notin dir THEN "gone" ELSE base[n].status
        marked == [n \in DOMAIN base |-> [base[n] EXCEPT !.status = st(n)]]
        tooOld(f) == f.status = "gone" /\ now - MtimeVal(d, f) > TOO_OLD
        aged(f) == IF f.status = "gone" THEN AfterMtime(d, f) ELSE f
        kept == {n \in DOMAIN marked : ~tooOld(marked[n])}
        back(f) ==
            IF reset /\ f.status # "gone" /\ d[f.path].ex
            THEN [AfterMtime(d, f) EXCEPT !.status =
                    IF now - MtimeVal(d, f) > RESET_AGE /\ f.fc < GIVE_UP
                    THEN "new" ELSE @]
            ELSE f
    IN  [n \in kept |-> back(aged(marked[n]))]

(* scan without the precedence of self.files: the status is the log's *)
MergedFromLog(m, reset) ==
    LET d == m.disk
        dir == DirNames(d)
        lf == LoggedFiles(m)
        base == [n \in DOMAIN lf \cup dir |->
                    IF n \in DOMAIN lf THEN lf[n] ELSE NewFile(d, n)]
        st(n) == IF n \notin dir THEN "gone" ELSE base[n].status
        marked == [n \in DOMAIN base |-> [base[n] EXCEPT !.status = st(n)]]
        tooOld(f) == f.status = "gone" /\ now - MtimeVal(d, f) > TOO_OLD
        aged(f) == IF f.status = "gone" THEN AfterMtime(d, f) ELSE f
        kept == {n \in DOMAIN marked : ~tooOld(marked[n])}
        back(f) ==
            IF reset /\ f.status \notin {"done", "gone"} /\ d[f.path].ex
            THEN [AfterMtime(d, f) EXCEPT !.status =
                    IF now - MtimeVal(d, f) > RESET_AGE /\ f.fc < GIVE_UP
                    THEN "new" ELSE @]
            ELSE f
    IN  [n \in kept |-> back(aged(marked[n]))]

(* scan: the merged File objects before they are written *)
Merged(m, reset) ==
    LET d == m.disk
        dir == DirNames(d)
        lf == LoggedFiles(m)
        base == [n \in DOMAIN lf \cup dir |->
                    IF n \in DOMAIN lf THEN lf[n] ELSE NewFile(d, n)]
        st(n) == IF n \in DOMAIN m.files
                    /\ m.files[n].status \in {"done", "gone"}
                 THEN m.files[n].status
                 ELSE IF n \notin dir THEN "gone" ELSE base[n].status
        marked == [n \in DOMAIN base |-> [base[n] EXCEPT !.status = st(n)]]
        tooOld(f) == f.status = "gone" /\ now - MtimeVal(d, f) > TOO_OLD
        aged(f) == IF f.status = "gone" THEN AfterMtime(d, f) ELSE f
        kept == {n \in DOMAIN marked : ~tooOld(marked[n])}
        back(f) ==
            IF reset /\ f.status \notin {"done", "gone"} /\ d[f.path].ex
            THEN [AfterMtime(d, f) EXCEPT !.status =
                    IF now - MtimeVal(d, f) > RESET_AGE /\ f.fc < GIVE_UP
                    THEN "new" ELSE @]
            ELSE f
    IN  [n \in kept |-> back(aged(marked[n]))]

(* scan: [m |-> the tagger afterwards, out |-> the dict it returns] *)
ScanWrite(m, mg) ==
    [m |-> ReadLog(Release([Acquire(m) EXCEPT
                !.lstate = "ok",
                !.log = [n \in DOMAIN mg |-> ToJson(m.disk, mg[n])]])),
     out |-> [n \in DOMAIN mg |-> AfterJson(m.disk, mg[n])]]

Scan(m, reset) ==
    IF ErrorState(m) THEN [m |-> m, out |-> Empty]
    ELSE ScanWrite(m, Merged(m, reset))

(* refresh *)
(* "self.files = self.scan(...)" *)
Scanned(s) == [s.m EXCEPT !.files = s.out]

(* refresh after its read_log, unless that raised *)
RefreshFrom(m1) == IF m1.raised THEN m1 ELSE Scanned(Scan(m1, FALSE))

Refresh(m) == IF ErrorState(m) THEN m ELSE RefreshFrom(ReadLog(m))

(* File.rename without its test of the status *)
RenameAnyStatus(m) ==
    LET old == m.f.path
        new == CleanName(old)
    IN  IF m.raised THEN m
        ELSE IF ~cfg.clean \/ new = old THEN m
        ELSE IF ~m.disk[old].ex THEN m
        ELSE LET d2 == [m.disk EXCEPT ![new] = m.disk[old], ![old] = Absent]
                 f1 == [m.f EXCEPT !.path = new]
                 f2 == AfterJson(d2, f1)
                 m2 == [m EXCEPT
                          !.disk = d2,
                          !.f = f2,
                          !.files = Put(Drop(@, old), new,
                                        IF m.shared THEN f2 ELSE m.files[old]),
                          !.ld = Put(Drop(@, old), new, ToJson(d2, f1))]
             IN  ReadLog(SaveToLog(m2))

(* File.rename: Path.rename replaces a file that has the new name, and     *)
(* raises when the file to rename is not there, which ends the handler.    *)
Rename(m) ==
    LET old == m.f.path
        new == CleanName(old)
    IN  IF m.raised THEN m
        ELSE IF m.f.status # "done" \/ ~cfg.clean \/ new = old THEN m
        ELSE IF ~m.disk[old].ex THEN m
        ELSE LET d2 == [m.disk EXCEPT ![new] = m.disk[old], ![old] = Absent]
                 f1 == [m.f EXCEPT !.path = new]
                 f2 == AfterJson(d2, f1)
                 m2 == [m EXCEPT
                          !.disk = d2,
                          !.f = f2,
                          !.files = Put(Drop(@, old), new,
                                        IF m.shared THEN f2 ELSE m.files[old]),
                          !.ld = Put(Drop(@, old), new, ToJson(d2, f1))]
             IN  ReadLog(SaveToLog(m2))

(* rename_file: File.rename returns None, so nothing follows it *)
RenameFile(m) == IF cfg.clean /\ m.f.status = "done" THEN Rename(m) ELSE m

Ret(m) == [m EXCEPT !.ret = TRUE]

(* process_file, lines 359-360: the tagger is busy, or busy with file n *)
PfBusy(m1, n) == IF m1.proc \/ m1.active = n THEN Ret(m1) ELSE m1

(* process_file, lines 317-360, without the returns for a done file *)
PfCheckNoDone(m, probe) ==
    LET n == m.f.path
        lf == LoggedFiles(m)
    IN  IF m.raised THEN m
        ELSE IF ~m.disk[n].ex THEN Ret(SetStatus(m, "gone"))
        ELSE IF ErrorState(m) THEN Ret(m)
        ELSE IF m.f.fc >= GIVE_UP THEN Ret(m)
        ELSE IF cfg.precheck /\ probe
             THEN Ret(RenameFile(SetStatus(m, "done")))
        ELSE IF n \in DOMAIN lf /\ lf[n].status = "gone"
             THEN Ret(SetF(m, [m.f EXCEPT !.status = lf[n].status]))
        ELSE PfBusy(IF m.f.status = "gone" THEN SetStatus(m, "new") ELSE m, n)

(* process_file, lines 317-360: the checks made before the file is looked  *)
(* at.  probe: check_file_bitrate printed something.                       *)

PfCheck(m, probe) ==
    LET n == m.f.path
        lf == LoggedFiles(m)
    IN  IF m.raised THEN m
        ELSE IF ~m.disk[n].ex THEN Ret(SetStatus(m, "gone"))
        ELSE IF ErrorState(m) THEN Ret(m)
        ELSE IF m.f.status = "done" \/ m.f.fc >= GIVE_UP THEN Ret(m)
        ELSE IF cfg.precheck /\ probe
             THEN Ret(RenameFile(SetStatus(m, "done")))
        ELSE IF n \in DOMAIN lf /\ lf[n].status \in {"done", "gone"}
             THEN Ret(SetF(m, [m.f EXCEPT !.status = lf[n].status]))
        ELSE PfBusy(IF m.f.status = "gone" THEN SetStatus(m, "new") ELSE m, n)

(* process_file, lines 374-386: a failed file is retried, the tagger is    *)
(* marked busy and the status set to processing.                           *)
(* lines 384-386, unless the setter of line 381 raised *)
PfStart(m1, n) ==
    IF m1.raised THEN m1
    ELSE SetStatus([m1 EXCEPT !.proc = TRUE, !.active = n], "processing")

PfMark(m) ==
    IF m.f.status = "failed" /\ m.f.fc >= GIVE_UP THEN Ret(m)
    ELSE PfStart(IF m.f.status = "failed" THEN SetStatus(m, "ready") ELSE m,
                 m.f.path)

(* lines 374-386 after the setter of line 367, unless it raised *)
PfMarkAfter(m) == IF m.raised THEN m ELSE PfMark(m)

(* process_file, lines 362-386: the stability check and what follows it *)
PfPrepare(m) ==
    LET un == Unstable(m.disk, m.f)
        m0 == SetF(m, AfterUnstable(m.disk, m.f))
    IN  IF m.f.status = "waiting"
        THEN IF un THEN Ret(m0) ELSE PfMarkAfter(SetStatus(m0, "ready"))
        ELSE IF un THEN Ret(SetStatus(m0, "waiting"))
        ELSE PfMark(m0)

(* process_file, lines 388-431: the tagging command has ended (ok: with    *)
(* exit code zero).  With a terminal the output is streamed and the exit   *)
(* code is not looked at.                                                  *)
PfRun(m, ok) ==
    [(IF cfg.tty THEN m
      ELSE IF ok THEN RenameFile(SetStatus(m, "done"))
      ELSE SetStatus(m, "failed"))
     EXCEPT !.proc = FALSE, !.active = NoName, !.ret = TRUE,
            !.ran = m.f.path, !.res = IF ok THEN "ok" ELSE "fail"]

(* MkvTagger.__init__ (the tables start empty, refresh() fills them),       *)
(* followed by the reset pass a start makes: scan(reset=True).             *)
StartupFrom(m0) == IF m0.raised THEN m0 ELSE Scanned(Scan(m0, TRUE))

Startup(m) ==
    StartupFrom(Refresh([m EXCEPT !.files = Empty, !.ld = Empty, !.errTs = 0,
                                  !.proc = FALSE, !.active = NoName,
                                  !.lock = FALSE]))

----------------------------------------------------------------------------
(* The state machine *)

NoFile == [path |-> NoName, orig |-> NoName, mtime |-> 0, lmtime |-> 0,
           size |-> 0, lsize |-> 0, status |-> "new", fc |-> 0]

(* The tagger as a handler finds it, with File object f at hand *)
Mach(f) ==
    [files |-> files, ld |-> logData, log |-> log, disk |-> disk,
     errTs |-> errTs, proc |-> isProcessing, active |-> activeFile,
     lstate |-> logFile, lock |-> locked, raised |-> FALSE,
     f |-> f, shared |-> TRUE, ran |-> NoName, res |-> "none", ret |-> FALSE]

(* "file = self.files.get(path.name)", or a new File put into self.files *)
Lookup(m, n) ==
    IF m.raised THEN m
    ELSE IF n \in DOMAIN m.files THEN [m EXCEPT !.f = m.files[n]]
    ELSE [m EXCEPT !.f = NewFile(m.disk, n),
                   !.files = Put(@, n, NewFile(m.disk, n))]

(* What a step did.  After a handler that called process_file: name, the   *)
(* file it was called with, and res, "ret" when it returned without        *)
(* starting the tagging command, else how the command ended.  After a      *)
(* reconciliation res is "scan", after a start "start".                    *)
NoObs == [name |-> NoName, res |-> "none"]

Obs(m, n) ==
    [name |-> n,
     res |-> IF m.raised THEN "raised"
             ELSE IF m.ran = NoName THEN "ret" ELSE m.res]

ScanObs == [NoObs EXCEPT !.res = "scan"]

StartObs == [NoObs EXCEPT !.res = "start"]

(* The tagging command has just failed on o.name, and the log now holds    *)
(* the file as failed with failed_count 3.                                 *)
ThirdFailure(m, o) ==
    /\ o.res = "fail"
    /\ o.name \in DOMAIN m.log
    /\ m.log[o.name].status = "failed"
    /\ m.log[o.name].failed_count = GIVE_UP

NoChk == [name |-> NoName, at |-> 0, size |-> 0]

(* error_state sets the time stamp back to 0 once the error state is over; *)
(* every handler asks for error_state.                                     *)
Stamp(m) == IF ErrorState(m) THEN m.errTs ELSE 0

(* process_file reaches its stability check of file n in this step *)
Checked(n) == [name |-> n, at |-> now, size |-> disk[n].size]

(* The handler is over: the tagger's state is what m holds; c is the last  *)
(* stability check made, forgotten when its file is no longer there.       *)
Effects(m, o, c) ==
    /\ \A n \in DOMAIN m.files : m.files[n].fc <= MaxFc
    /\ files' = m.files
    /\ logData' = m.ld
    /\ log' = m.log
    /\ logFile' = m.lstate
    /\ locked' = m.lock
    /\ disk' = m.disk
    /\ errTs' = Stamp(m)
    /\ isProcessing' = m.proc
    /\ activeFile' = m.active
    /\ obs' = IF m.raised THEN [o EXCEPT !.res = "raised"] ELSE o
    /\ gaveUp' = IF ThirdFailure(m, o) THEN gaveUp \cup {o.name} ELSE gaveUp
    /\ chk' = IF c.name # NoName /\ ~m.disk[c.name].ex THEN NoChk ELSE c
    /\ UNCHANGED <<now, cfg, writes>>

(* An exception that leaves a handler ends the program: no handler runs   *)
(* until the program is started again.                                     *)
Running == pc["event"] # "halted"

Halted == [pc EXCEPT !["event"] = "halted"]

AfterStep == pc' = IF obs'.res = "raised" THEN Halted ELSE pc

Finish(m, o) ==
    Running /\ Effects(m, o, chk) /\ AfterStep /\ UNCHANGED loc

Outcomes == {"ok", "fail", "kill"}

Probes == IF cfg.precheck THEN BOOLEAN ELSE {FALSE}

(* The tagging command was started by this call and the whole process was  *)
(* terminated before the command ended; it is then started again.          *)
Killed(m) == [Startup(m) EXCEPT !.ran = m.f.path, !.res = "kill", !.ret = TRUE]

(* process_file is over for file n: m is the tagger it leaves behind, c    *)
(* the last stability check made.                                          *)
Done(m, n, c) == Effects(m, Obs(m, n), c)

(* process_file from the tagging command on, with each way the command can *)
(* end; b is the tagger after lines 362-386.                               *)
AfterPrepare(b, n, outs) ==
    IF b.ret THEN Done(b, n, Checked(n))
    ELSE \E out \in outs :
            Done(IF out = "kill" THEN Killed(b) ELSE PfRun(b, out = "ok"),
                 n, Checked(n))

(* process_file from the stability check on; a is the tagger after lines   *)
(* 317-360.                                                                *)
AfterCheck(a, n, outs) ==
    IF a.ret THEN Done(a, n, chk)
    ELSE AfterPrepare(PfPrepare(a), n, outs)

(* process_file(m.f) as one step: up to the tagging command, and, when the *)
(* command is started, on to the end with each way the command can end.    *)
HandleWith(m, probe, outs) == AfterCheck(PfCheck(m, probe), m.f.path, outs)

Handle(m, probe) ==
    Running /\ HandleWith(m, probe, Outcomes) /\ AfterStep /\ UNCHANGED loc

(* on_modified for an .mkv path: a filesystem event, or the synthetic      *)
(* event queue_files emits for a file that is not done.                    *)
OnModified(n, probe) == Handle(Lookup(Mach(NoFile), n), probe)

(* on_modified for the log file *)
OnModifiedLog == Finish(ReadLog(Mach(NoFile)), NoObs)

(* on_created, and the reconciliation of the polling loop: refresh() *)
OnCreated == Finish(Refresh(Mach(NoFile)), ScanObs)

(* on_closed *)
OnClosed(n, probe) == Handle(Lookup(Refresh(Mach(NoFile)), n), probe)

(* on_deleted *)
OnDeleted(n, probe) ==
    Handle(IF n \in DOMAIN files THEN Lookup(Mach(NoFile), n)
           ELSE SetStatus(Lookup(Mach(NoFile), n), "gone"),
           probe)

(* The process is stopped between two handlers and started again *)
Restart ==
    /\ Effects(Startup(Mach(NoFile)), StartObs, chk)
    /\ pc' = IF obs'.res = "raised" THEN Halted
             ELSE [pc EXCEPT !["event"] = "idle"]
    /\ UNCHANGED loc

(* The environment: the log file is overwritten with text that is not one  *)
(* JSON object; its records are lost.  It is one of the writes the         *)
(* environment makes.                                                      *)
Corrupt ==
    /\ writes < MaxWrites
    /\ writes' = writes + 1
    /\ logFile # "bad"
    /\ logFile' = "bad"
    /\ log' = Empty
    /\ obs' = NoObs
    /\ gaveUp' = {}
    /\ UNCHANGED <<now, disk, locked, logData, files, isProcessing,
                   activeFile, errTs, cfg, pc, loc, chk>>

(* The environment: a file is written (created, grown, replaced), with the *)
(* time of the write or with a time stamp it brings along.                 *)
OldStamps == {Start - RESET_AGE}

Write(n, s, t) ==
    /\ writes < MaxWrites
    /\ writes' = writes + 1
    /\ disk[n] # [ex |-> TRUE, size |-> s, mtime |-> t]
    /\ disk' = [disk EXCEPT ![n] = [ex |-> TRUE, size |-> s, mtime |-> t]]
    /\ obs' = NoObs
    /\ gaveUp' = gaveUp \ {n}
    /\ UNCHANGED <<now, log, logFile, locked, logData, files, isProcessing,
                   activeFile, errTs,
                   cfg, pc, loc, chk>>

Delete(n) ==
    /\ disk[n].ex
    /\ disk' = [disk EXCEPT ![n] = Absent]
    /\ obs' = NoObs
    /\ gaveUp' = gaveUp \ {n}
    /\ chk' = IF chk.name = n THEN NoChk ELSE chk
    /\ UNCHANGED <<now, log, logFile, locked, logData, files, isProcessing,
                   activeFile, errTs,
                   cfg, pc, loc, writes>>

Tick ==
    /\ now < Start + MaxElapsed
    /\ now' = now + 1
    /\ obs' = NoObs
    /\ UNCHANGED <<disk, log, logFile, locked, logData, files, isProcessing,
                   activeFile, errTs,
                   cfg, pc, loc, writes, gaveUp, chk>>

(* The configurations followed: names are cleaned, no precheck, with and   *)
(* without a terminal.                                                     *)
Configs ==
    {c \in [clean : BOOLEAN, precheck : BOOLEAN, tty : BOOLEAN, exc : BOOLEAN] :
        c.clean /\ ~c.precheck /\ ~c.exc}

Idle == [t \in Threads |-> "idle"]

NoLoc == [t \in Threads |-> [f |-> NoFile, shared |-> FALSE]]

Init ==
    /\ now = Start
    /\ disk = [n \in Names |-> Absent]
    /\ log = Empty
    /\ logFile = "ok"
    /\ locked = FALSE
    /\ logData = Empty
    /\ files = Empty
    /\ isProcessing = FALSE
    /\ activeFile = NoName
    /\ errTs = 0
    /\ cfg \in Configs
    /\ pc = Idle
    /\ loc = NoLoc
    /\ writes = 0
    /\ obs = NoObs
    /\ gaveUp = {}
    /\ chk = NoChk

Next ==
    \/ \E n \in Names, probe \in Probes :
            \/ OnModified(n, probe)
            \/ OnClosed(n, probe)
            \/ OnDeleted(n, probe)
    \/ OnModifiedLog
    \/ OnCreated
    \/ Restart
    \/ \E n \in Written, s \in 1..MaxSize, t \in OldStamps \cup {now} : Write(n, s, t)
    \/ \E n \in Names : Delete(n)
    \/ Tick

Spec == Init /\ [][Next]_vars

----------------------------------------------------------------------------
(* The same handlers with a log file that can be corrupted, in lenient     *)
(* (exc false) and strict (exc true) mode, without a terminal.             *)

ConfigsErr ==
    {c \in [clean : BOOLEAN, precheck : BOOLEAN, tty : BOOLEAN, exc : BOOLEAN] :
        c.clean /\ ~c.precheck /\ ~c.tty}

InitErr ==
    /\ now = Start
    /\ disk = [n \in Names |-> Absent]
    /\ log = Empty
    /\ logFile = "ok"
    /\ locked = FALSE
    /\ logData = Empty
    /\ files = Empty
    /\ isProcessing = FALSE
    /\ activeFile = NoName
    /\ errTs = 0
    /\ cfg \in ConfigsErr
    /\ pc = Idle
    /\ loc = NoLoc
    /\ writes = 0
    /\ obs = NoObs
    /\ gaveUp = {}
    /\ chk = NoChk

NextErr == Next \/ Corrupt

SpecErr == InitErr /\ [][NextErr]_vars

----------------------------------------------------------------------------
(* Two threads.  The polling loop and the event callback each call         *)
(* process_file; a call is made of three steps, and the steps of the two   *)
(* calls interleave: Check (lines 317-360), Prepare (lines 362-386), Run   *)
(* (lines 388-431, the tagging command from its start to the finally       *)
(* clause).  A thread holds the File object it was called with; the object *)
(* is shared while it is the one self.files holds under its name.          *)

Other(t) == CHOOSE u \in Threads : u # t

(* The tagger as thread t finds it *)
ThreadMach(t) == [Mach(loc[t].f) EXCEPT !.shared = loc[t].shared]

(* Both threads hold the same File object *)
Alias(t) ==
    /\ pc[Other(t)] # "idle"
    /\ loc[t].shared /\ loc[Other(t)].shared
    /\ loc[t].f.path = loc[Other(t)].f.path

(* The step of t that led to m put another object into self.files under    *)
(* the name of the object the other thread holds: the setter of an object  *)
(* that was not shared, a rename to that name, or a refresh that replaced  *)
(* self.files.                                                             *)
Replaced(t, m) ==
    \/ /\ pc[t] # "idle" /\ ~loc[t].shared /\ m.shared
       /\ loc[t].f.path = loc[Other(t)].f.path
    \/ /\ pc[t] # "idle" /\ m.f.path # loc[t].f.path
       /\ m.f.path = loc[Other(t)].f.path
    \/ m.f.path = NoName /\ m.files # files

(* What the other thread holds after the step of t that led to m *)
OtherLoc(t, m) ==
    LET u == Other(t)
    IN  IF pc[u] = "idle" THEN loc[u]
        ELSE IF Alias(t) THEN [f |-> m.f, shared |-> m.shared]
        ELSE IF loc[u].shared /\ Replaced(t, m)
             THEN [loc[u] EXCEPT !.shared = FALSE]
        ELSE loc[u]

(* Thread t has made a step that led to m and goes on at p *)
FinishStep(t, m, p) ==
    /\ \A n \in DOMAIN m.files : m.files[n].fc <= MaxFc
    /\ files' = m.files
    /\ logData' = m.ld
    /\ log' = m.log
    /\ logFile' = m.lstate
    /\ locked' = m.lock
    /\ disk' = m.disk
    /\ errTs' = Stamp(m)
    /\ isProcessing' = m.proc
    /\ activeFile' = m.active
    /\ pc' = [pc EXCEPT ![t] = p]
    /\ loc' = [u \in Threads |->
                IF u # t THEN OtherLoc(t, m)
                ELSE IF p = "idle" THEN [f |-> NoFile, shared |-> FALSE]
                ELSE [f |-> m.f, shared |-> m.shared]]
    /\ UNCHANGED <<now, cfg, writes, obs, gaveUp, chk>>

(* on_modified up to its call of process_file; the polling loop's call of  *)
(* process_file for a file of self.files.                                  *)
Begin(t, n) ==
    /\ pc[t] = "idle"
    /\ FinishStep(t, Lookup(Mach(NoFile), n), "check")

(* refresh, called by on_created and by the polling loop: self.files is    *)
(* replaced when the scan differs from it, and the object the other thread *)
(* holds is then no longer the one in self.files.                          *)
Reconcile(t) ==
    /\ pc[t] = "idle"
    /\ LET m == Refresh(Mach(NoFile))
       IN  FinishStep(t, m, "idle")

Check(t) ==
    /\ pc[t] = "check"
    /\ LET m == PfCheck(ThreadMach(t), FALSE)
       IN  FinishStep(t, m, IF m.ret THEN "idle" ELSE "prepare")

Prepare(t) ==
    /\ pc[t] = "prepare"
    /\ LET m == PfPrepare(ThreadMach(t))
       IN  FinishStep(t, m, IF m.ret THEN "idle" ELSE "run")

Run(t, ok) ==
    /\ pc[t] = "run"
    /\ FinishStep(t, PfRun(ThreadMach(t), ok), "idle")

(* The files of the directory are written once, while no call is under way *)
Arrive(n, s) ==
    /\ pc = Idle
    /\ ~disk[n].ex
    /\ Write(n, s, Start - RESET_AGE)

NextConc ==
    \/ \E t \in Threads :
            \/ \E n \in Names : Begin(t, n)
            \/ Reconcile(t)
            \/ Check(t)
            \/ Prepare(t)
            \/ \E ok \in BOOLEAN : Run(t, ok)
    \/ \E n \in Names, s \in 1..MaxSize : Arrive(n, s)

SpecConc == Init /\ [][NextConc]_vars

----------------------------------------------------------------------------
(* Two threads that change statuses.  "file.status = value" is made of     *)
(* three steps, each of which takes LOG_FILE_LOCK for itself where it      *)
(* touches the log file: read_log (line 125), lines 126-158, save_to_log   *)
(* (line 159).  Both files are in the directory and in the log.            *)

OnDisk(s, t) == [ex |-> TRUE, size |-> s, mtime |-> t]

(* The record of a file an earlier run has logged *)
LoggedAs(n, st, fc) ==
    [name |-> n, mtime |-> ToIso(Start - RESET_AGE), size |-> 1,
     failed_count |-> fc, status |-> st]

InitLog ==
    /\ now = Start
    /\ cfg \in {c \in Configs : ~c.tty}
    /\ disk = [n \in Names |-> OnDisk(1, Start - RESET_AGE)]
    /\ log = [n \in Names |-> LoggedAs(n, "new", 0)]
    /\ logFile = "ok"
    /\ locked = FALSE
    /\ logData = [n \in Names |-> LoggedAs(n, "new", 0)]
    /\ files = [n \in Names |-> FromJson(LoggedAs(n, "new", 0))]
    /\ isProcessing = FALSE
    /\ activeFile = NoName
    /\ errTs = 0
    /\ pc = Idle
    /\ loc = NoLoc
    /\ writes = 0
    /\ obs = NoObs
    /\ gaveUp = {}
    /\ chk = NoChk

(* The setter of files[n] is entered: read_log *)
SetRead(t, n) ==
    /\ pc[t] = "idle"
    /\ FinishStep(t, ReadLog(Lookup(Mach(NoFile), n)), "store")

SetStoreStep(t, value) ==
    /\ pc[t] = "store"
    /\ FinishStep(t, SetStore(ThreadMach(t), value), "save")

SetSave(t) ==
    /\ pc[t] = "save"
    /\ FinishStep(t, SaveToLog(ThreadMach(t)), "idle")

(* The statuses process_file gives a file whose command succeeds            *)
Changes == {"waiting", "processing", "done"}

NextLog ==
    \E t \in Threads :
        \/ \E n \in Names : SetRead(t, n)
        \/ \E value \in Changes : SetStoreStep(t, value)
        \/ SetSave(t)

SpecLog == InitLog /\ [][NextLog]_vars

----------------------------------------------------------------------------
(* Polling alone, over a log an earlier run has left.  The directory holds *)
(* one file that stays and does not change; the program is started (the    *)
(* constructor and the reset pass), and then the polling loop makes its    *)
(* passes: a pass is started, and it reconciles and calls process_file for *)
(* the file.  The loop starts a pass whenever none is under way and time   *)
(* goes on: weak fairness of PollStart and Tick.                           *)

(* The statuses a record is not to keep for ever *)
Pending == {"new", "waiting", "ready", "processing", "failed"}

FairLogs ==
    {Empty} \cup {[n \in {k} |-> LoggedAs(k, st, fc)] :
                    k \in Written, st \in Pending, fc \in 0..(GIVE_UP - 1)}

InitFair ==
    /\ now = Start
    /\ cfg \in Configs
    /\ \E k \in Written, t \in OldStamps \cup {Start} :
            disk = [n \in Names |-> IF n = k THEN OnDisk(1, t) ELSE Absent]
    /\ log \in FairLogs
    /\ logFile = "ok"
    /\ locked = FALSE
    /\ logData = Empty
    /\ files = Empty
    /\ isProcessing = FALSE
    /\ activeFile = NoName
    /\ errTs = 0
    /\ pc = [t \in Threads |-> IF t = "poll" THEN "off" ELSE "idle"]
    /\ loc = NoLoc
    /\ writes = 0
    /\ obs = NoObs
    /\ gaveUp = {}
    /\ chk = NoChk

(* The start of the program *)
Boot ==
    /\ pc["poll"] = "off"
    /\ FinishStep("poll", Startup(Mach(NoFile)), "idle")

PollStart ==
    /\ pc["poll"] = "idle"
    /\ pc' = [pc EXCEPT !["poll"] = "pass"]
    /\ UNCHANGED <<now, disk, log, logFile, locked, logData, files,
                   isProcessing, activeFile,
                   errTs, cfg, loc, writes, obs, gaveUp, chk>>

(* The pass for file n of the directory; the tagging command, when         *)
(* started, runs to its end.                                               *)
Poll(n) ==
    /\ pc["poll"] = "pass"
    /\ disk[n].ex
    /\ HandleWith(Lookup(Refresh(Mach(NoFile)), n), FALSE, {"ok", "fail"})
    /\ pc' = [pc EXCEPT !["poll"] = "idle"]
    /\ UNCHANGED loc

NextFair == Boot \/ PollStart \/ (\E n \in Names : Poll(n)) \/ Tick

SpecFair ==
    /\ InitFair /\ [][NextFair]_vars
    /\ WF_vars(PollStart) /\ WF_vars(Tick)

----------------------------------------------------------------------------
(* A directory that holds a file last written more than a day ago when the *)
(* program is started.  The file is processed, deleted, and reconciled.    *)

Ancient == Start - TOO_OLD - 1

InitAge ==
    /\ now = Start
    /\ cfg \in Configs
    /\ \E s \in 1..MaxSize :
            disk = [n \in Names |-> IF n \in Written THEN OnDisk(s, Ancient)
                                    ELSE Absent]
    /\ log = Empty
    /\ logFile = "ok"
    /\ locked = FALSE
    /\ logData = Empty
    /\ files = Empty
    /\ isProcessing = FALSE
    /\ activeFile = NoName
    /\ errTs = 0
    /\ pc = Idle
    /\ loc = NoLoc
    /\ writes = 0
    /\ obs = NoObs
    /\ gaveUp = {}
    /\ chk = NoChk

NextAge ==
    \/ \E n \in Names : OnModified(n, FALSE)
    \/ OnCreated
    \/ Restart
    \/ \E n \in Names : Delete(n)
    \/ Tick

SpecAge == InitAge /\ [][NextAge]_vars

----------------------------------------------------------------------------
(* The status setter on its own.  The log is one an earlier run has left,  *)
(* with any status for the files it holds; "file.status = value" is then   *)
(* run for a file of the directory, with any value, time and again.        *)

InitSet ==
    /\ now = Start
    /\ cfg \in {c \in Configs : ~c.tty}
    /\ disk = [n \in Names |-> OnDisk(1, Start - RESET_AGE)]
    /\ \E dom \in SUBSET Names, st \in [Names -> Status] :
            /\ log = [n \in dom |-> LoggedAs(n, st[n], 0)]
            /\ logData = [n \in dom |-> LoggedAs(n, st[n], 0)]
            /\ files = [n \in dom |-> FromJson(LoggedAs(n, st[n], 0))]
    /\ logFile = "ok"
    /\ locked = FALSE
    /\ isProcessing = FALSE
    /\ activeFile = NoName
    /\ errTs = 0
    /\ pc = Idle
    /\ loc = NoLoc
    /\ writes = 0
    /\ obs = NoObs
    /\ gaveUp = {}
    /\ chk = NoChk

(* What the step did: the setter of file n was run with value *)
SetObs(n, value) == [name |-> n, res |-> "set", value |-> value]

(* file.status = value, for the File object self.files holds for n (a new  *)
(* File when it holds none)                                                *)
Set(n, value) ==
    Finish(SetStatus(Lookup(Mach(NoFile), n), value), SetObs(n, value))

NextSet == \E n \in Names, value \in Status : Set(n, value)

SpecSet == InitSet /\ [][NextSet]_vars

(* A directory that already holds a file when the program is constructed,  *)
(* and the file is written again while the program follows it.             *)
InitGrow ==
    /\ now = Start
    /\ cfg \in Configs
    /\ \E s \in 1..MaxSize, t \in OldStamps :
            disk = [n \in Names |-> IF n \in Written THEN OnDisk(s, t)
                                    ELSE Absent]
    /\ log = Empty
    /\ logFile = "ok"
    /\ locked = FALSE
    /\ logData = Empty
    /\ files = Empty
    /\ isProcessing = FALSE
    /\ activeFile = NoName
    /\ errTs = 0
    /\ pc = Idle
    /\ loc = NoLoc
    /\ writes = 0
    /\ obs = NoObs
    /\ gaveUp = {}
    /\ chk = NoChk

NextGrow ==
    \/ \E n \in Names : OnModified(n, FALSE)
    \/ OnCreated
    \/ \E n \in Written, s \in 1..MaxSize, t \in OldStamps \cup {now} : Write(n, s, t)
    \/ Tick

SpecGrow == InitGrow /\ [][NextGrow]_vars

(* The configurations with the precheck (--precheck) switched on *)
ConfigsPre ==
    {c \in [clean : BOOLEAN, precheck : BOOLEAN, tty : BOOLEAN, exc : BOOLEAN] :
        c.clean /\ c.precheck /\ ~c.tty /\ ~c.exc}

InitPre ==
    /\ now = Start
    /\ disk = [n \in Names |-> Absent]
    /\ log = Empty
    /\ logFile = "ok"
    /\ locked = FALSE
    /\ logData = Empty
    /\ files = Empty
    /\ isProcessing = FALSE
    /\ activeFile = NoName
    /\ errTs = 0
    /\ cfg \in ConfigsPre
    /\ pc = Idle
    /\ loc = NoLoc
    /\ writes = 0
    /\ obs = NoObs
    /\ gaveUp = {}
    /\ chk = NoChk

SpecPre == InitPre /\ [][Next]_vars

(* What the step did: File.rename, or rename_file, was called for file n *)
RenameObs(n, res) == [name |-> n, res |-> res]

(* file.rename() for the File object self.files holds for n *)
RenameCall(n) ==
    /\ n \in DOMAIN files
    /\ Finish(Rename(Lookup(Mach(NoFile), n)), RenameObs(n, "rename"))

(* self.rename_file(file) for the File object self.files holds for n *)
RenameFileCall(n) ==
    /\ n \in DOMAIN files
    /\ Finish(RenameFile(Lookup(Mach(NoFile), n)), RenameObs(n, "rename_file"))

NextRen == \E n \in Names : RenameCall(n) \/ RenameFileCall(n)

SpecRen == InitSet /\ [][NextRen]_vars

(* A tagger whose table and whose log disagree, as after a lost update of  *)
(* the log or after the log was edited: every table of statuses in         *)
(* self.files, every table of statuses in the log as it was last read.     *)
InitMerge ==
    /\ now = Start
    /\ cfg \in {c \in Configs : ~c.tty}
    /\ \E there \in SUBSET Names :
            disk = [n \in Names |-> IF n \in there
                                    THEN OnDisk(1, Start - RESET_AGE)
                                    ELSE Absent]
    /\ \E mem \in [Names -> Status], st \in [Names -> Status] :
            /\ files = [n \in Names |-> FromJson(LoggedAs(n, mem[n], 0))]
            /\ log = [n \in Names |-> LoggedAs(n, st[n], 0)]
            /\ logData = [n \in Names |-> LoggedAs(n, st[n], 0)]
    /\ logFile = "ok"
    /\ locked = FALSE
    /\ isProcessing = FALSE
    /\ activeFile = NoName
    /\ errTs = 0
    /\ pc = Idle
    /\ loc = NoLoc
    /\ writes = 0
    /\ obs = NoObs
    /\ gaveUp = {}
    /\ chk = NoChk

(* The records whose status in self.files is done or gone while the log    *)
(* as read holds another status for them                                   *)
Overruled(m) ==
    {n \in DOMAIN m.files \cap DOMAIN m.ld :
        /\ m.files[n].status \in {"done", "gone"}
        /\ m.ld[n].status # m.files[n].status}

(* What the step did: scan(reset) was called; over are the records for     *)
(* which self.files and the log disagreed                                  *)
MergeObs(m, reset) ==
    [name |-> NoName, res |-> "scan", reset |-> reset, over |-> Overruled(m)]

(* self.scan(reset): the log is written, the dict it returns is dropped *)
ScanCall(reset) ==
    Finish(Scan(Mach(NoFile), reset).m, MergeObs(Mach(NoFile), reset))

NextMerge == OnCreated \/ \E reset \in BOOLEAN : ScanCall(reset)

SpecMerge == InitMerge /\ [][NextMerge]_vars

(* A thread that does not wait for the lock *)
LockIgnored(l) == TRUE

(* "while LOG_FILE_LOCK.locked(): time.sleep(0.1)" and "with               *)
(* LOG_FILE_LOCK:": a thread goes on when no thread holds the lock         *)
LockIsFree(l) == ~l

(* The lock is taken and "open(self.log_file, 'w')" has emptied the log    *)
(* file; m2 is the tagger as the operation that writes leaves it.          *)
OpenLog(t, m2) ==
    /\ pc[t] = "idle"
    /\ LockIsFree(locked)
    /\ locked' = TRUE
    /\ logFile' = "bad"
    /\ log' = Empty
    /\ pc' = [pc EXCEPT ![t] = "dump"]
    /\ loc' = [loc EXCEPT ![t] = [f |-> m2.f, shared |-> TRUE, after |-> m2]]
    /\ obs' = NoObs
    /\ UNCHANGED <<now, disk, logData, files, isProcessing, activeFile,
                   errTs, cfg, writes, gaveUp, chk>>

(* json.dump has written the records, the file is closed and the lock      *)
(* released; what follows the write in the operation is done.              *)
CloseLog(t) ==
    /\ pc[t] = "dump"
    /\ Effects(loc[t].after, [NoObs EXCEPT !.res = "wrote"], chk)
    /\ pc' = [pc EXCEPT ![t] = "idle"]
    /\ loc' = [loc EXCEPT ![t] = NoLoc[t]]

(* The three operations that write the log *)
SetOpens(t, n, value) ==
    OpenLog(t, SetStatus(Lookup(Mach(NoFile), n), value))

RenameOpens(t, n) ==
    /\ n \in DOMAIN files
    /\ files[n].status = "done"
    /\ CleanName(n) # n
    /\ OpenLog(t, Rename(Lookup(Mach(NoFile), n)))

ScanOpens(t) == OpenLog(t, Refresh(Mach(NoFile)))

(* read_log is called: during tells whether another thread is writing the  *)
(* log at that moment                                                      *)
ReadCalled(t) ==
    /\ pc[t] = "idle"
    /\ pc' = [pc EXCEPT ![t] = "wait"]
    /\ loc' = [loc EXCEPT ![t] = [f |-> NoFile, shared |-> FALSE,
                                  during |-> locked]]
    /\ obs' = NoObs
    /\ UNCHANGED <<now, disk, log, logFile, locked, logData, files,
                   isProcessing, activeFile, errTs, cfg, writes, gaveUp, chk>>

(* What the step did: read_log read the log file; whole tells whether the  *)
(* file held one JSON object                                               *)
ReadObs(t) ==
    [name |-> NoName, res |-> "read", during |-> loc[t].during,
     whole |-> logFile = "ok"]

(* read_log has the lock and reads the file *)
ReadDone(t) ==
    /\ pc[t] = "wait"
    /\ LockIsFree(locked)
    /\ Effects(ReadLog(Mach(NoFile)), ReadObs(t), chk)
    /\ pc' = [pc EXCEPT ![t] = "idle"]
    /\ loc' = [loc EXCEPT ![t] = NoLoc[t]]

NextIO ==
    \E t \in Threads :
        \/ \E n \in Names, value \in Changes : SetOpens(t, n, value)
        \/ \E n \in Names : RenameOpens(t, n)
        \/ ScanOpens(t)
        \/ CloseLog(t)
        \/ ReadCalled(t)
        \/ ReadDone(t)

SpecIO == InitLog /\ [][NextIO]_vars

(* A write of the log file that fails: at "open", open(log_file, 'w')      *)
(* raises and the file is as it was; at "dump", the file is open and       *)
(* emptied when json.dump raises.                                          *)
FailPoints == {"open", "dump"}

Emptied(m) == [m EXCEPT !.lstate = "bad", !.log = Empty]

(* save_to_log whose write fails: "except json.JSONDecodeError" catches    *)
(* nothing a write can raise, the exception leaves save_to_log and the     *)
(* setter; the with block releases the lock.                               *)
SaveFails(m, at) ==
    IF at = "open" THEN Raise(m) ELSE Raise(Emptied(m))

(* File.status setter whose save_to_log fails *)
SetStatusFails(m1, value, at) ==
    IF m1.raised THEN m1 ELSE SaveFails(SetStore(m1, value), at)

(* scan, lines 264-270, after handle_json_error: read_log and the return   *)
(* of merged, unless the error was raised again                            *)
ScanFailed(m1, out) ==
    IF m1.raised THEN m1 ELSE [ReadLog(m1) EXCEPT !.files = out]

(* scan whose write fails: open is outside the try and its exception       *)
(* leaves scan; what json.dump raises goes to handle_json_error without    *)
(* autofix.                                                                *)
ScanFails(m, mg, at) ==
    IF at = "open" THEN Raise(m)
    ELSE ScanFailed(HandleJsonError(Emptied(m), FALSE),
                    [n \in DOMAIN mg |-> AfterJson(m.disk, mg[n])])

(* refresh whose scan fails to write *)
RefreshFailsFrom(m1, at) ==
    IF m1.raised THEN m1 ELSE ScanFails(m1, Merged(m1, FALSE), at)

(* What the step did: the operation op tried to write the log and the      *)
(* write failed                                                            *)
FailObs(n, op) == [name |-> n, res |-> "nowrite", op |-> op]

(* "file.status = value" for the file n, and the write fails *)
SetWriteFails(n, value, at) ==
    Finish(SetStatusFails(ReadLog(Lookup(Mach(NoFile), n)), value, at),
           FailObs(n, "set"))

(* refresh outside the error state, and the write in scan fails *)
ScanWriteFails(at) ==
    /\ ~ErrorState(Mach(NoFile))
    /\ Finish(RefreshFailsFrom(ReadLog(Mach(NoFile)), at), FailObs(NoName, "scan"))

InitFail ==
    /\ now = Start
    /\ cfg \in ConfigsErr
    /\ disk = [n \in Names |-> OnDisk(1, Start - RESET_AGE)]
    /\ log = [n \in Names |-> LoggedAs(n, "new", 0)]
    /\ logFile = "ok"
    /\ locked = FALSE
    /\ logData = [n \in Names |-> LoggedAs(n, "new", 0)]
    /\ files = [n \in Names |-> FromJson(LoggedAs(n, "new", 0))]
    /\ isProcessing = FALSE
    /\ activeFile = NoName
    /\ errTs = 0
    /\ pc = Idle
    /\ loc = NoLoc
    /\ writes = 0
    /\ obs = NoObs
    /\ gaveUp = {}
    /\ chk = NoChk

NextFail ==
    \/ \E n \in Names, value \in Changes : Set(n, value)
    \/ OnCreated
    \/ \E n \in Names, value \in Changes, at \in FailPoints :
            SetWriteFails(n, value, at)
    \/ \E at \in FailPoints : ScanWriteFails(at)
    \/ Restart
    \/ Tick

SpecFail == InitFail /\ [][NextFail]_vars

(* run.py: the File and MkvTagger classes of the single-file program and   *)
(* its driver.  The files followed here stay on disk, where the mtime and  *)
(* size properties of run.py read as those of file.py do.  The record r    *)
(* holds the tagger while a handler runs: files, log (the log file), disk, *)
(* t (the time, which the sleeps of process_file move on) and ran (the     *)
(* files the tagging command was started on).                              *)
SLEEP_TIME == 30

MODIFIED_SAFE_TIME == 30

MaxSleeps == 1      \* process_file sleeps at most this often in a behaviour

RunOrder == << <<"a">>, <<"a", "x264">> >>

RunMach == [files |-> files, log |-> log, disk |-> disk, t |-> now, ran |-> {}]

(* save_to_log: every File of self.files is written, to_json stats each *)
RunSave(r) ==
    [r EXCEPT !.files = [k \in DOMAIN r.files |-> AfterJson(r.disk, r.files[k])],
              !.log = [k \in DOMAIN r.files |-> ToJson(r.disk, r.files[k])]]

(* A property of the File object of n was read: the object afterwards *)
Look(r, n, f2) == [r EXCEPT !.files = Put(@, n, f2)]

LookSize(r, n) == Look(r, n, AfterSize(r.disk, r.files[n]))

LookMtime(r, n) == Look(r, n, AfterMtime(r.disk, r.files[n]))

(* The status setter, and fail(): no value is rejected *)
RunSetStatus(r, n, v) == RunSave(Look(r, n, WithStatus(r.files[n], v)))

RunFail(r, n) == RunSave(Look(r, n, WithStatus(r.files[n], "failed")))

(* was_recently_modified *)
RunRecent(r, n) == r.t - MtimeVal(r.disk, r.files[n]) < MODIFIED_SAFE_TIME

(* "file.was_recently_modified or file.size_changed_since_last_check" *)
RunUnstable(r, n) ==
    RunRecent(r, n) \/ SizeChanged(r.disk, AfterMtime(r.disk, r.files[n]))

RunLooked(r, n) ==
    IF RunRecent(r, n) THEN LookMtime(r, n) ELSE LookSize(LookMtime(r, n), n)

(* time.sleep(SLEEP_TIME), during which the file may be written again *)
Sleep(r, n, grows) ==
    [r EXCEPT !.t = @ + SLEEP_TIME,
              !.disk = IF grows
                       THEN [@ EXCEPT ![n] = OnDisk((@.size % MaxSize) + 1,
                                                    r.t + SLEEP_TIME)]
                       ELSE @]

(* process_file from "if file.status == 'failed'" on: the command is run;  *)
(* with a terminal its exit code is not looked at and no status follows.   *)
RunEnded(r, n, ok) ==
    IF cfg.tty THEN r
    ELSE IF ok THEN RunSetStatus(r, n, "done") ELSE RunFail(r, n)

RunStarted(r, n) ==
    [RunSetStatus(r, n, "processing") EXCEPT !.ran = @ \cup {n}]

RunCommand(r, n, ok) ==
    RunEnded(RunStarted(IF r.files[n].status = "failed"
                        THEN RunSetStatus(r, n, "new") ELSE r, n), n, ok)

(* after the sleep of the branch for a changed size *)
RunAfterSizeSleep(r, n, ok) ==
    IF SizeChanged(r.disk, r.files[n]) THEN RunSave(LookSize(r, n))
    ELSE RunCommand(LookSize(r, n), n, ok)

(* after the sleep of the branch for a recent modification *)
RunAfterTimeSleep(r, n, ok) ==
    IF RunRecent(r, n) THEN RunSave(LookMtime(r, n))
    ELSE RunCommand(LookMtime(r, n), n, ok)

(* process_file after "file.status = 'waiting'" *)
RunWaited(r, n, ok, grows) ==
    IF SizeChanged(r.disk, r.files[n])
    THEN RunAfterSizeSleep(Sleep(LookSize(LookSize(r, n), n), n, grows), n, ok)
    ELSE RunAfterTimeSleep(Sleep(LookMtime(LookSize(r, n), n), n, grows), n, ok)

(* process_file of run.py for the File object of n *)
RunProcessFile(r, n, ok, grows) ==
    IF r.files[n].status \in {"done", "gone"} THEN r
    ELSE IF r.files[n].status = "failed" /\ r.files[n].fc >= GIVE_UP
         THEN IF r.files[n].fc = GIVE_UP THEN RunFail(r, n) ELSE r
    ELSE IF RunUnstable(r, n)
         THEN IF r.files[n].status = "waiting" THEN RunLooked(r, n)
              ELSE RunWaited(RunSetStatus(RunLooked(r, n), n, "waiting"),
                             n, ok, grows)
    ELSE RunCommand(RunLooked(r, n), n, ok)

RunVisit(r, n, ok, grows) ==
    IF n \in DOMAIN r.files THEN RunProcessFile(r, n, ok, grows) ELSE r

(* process_dir: process_file for every File of self.files *)
RunProcessDir(r, ok1, ok2, grows) ==
    RunVisit(RunVisit(r, RunOrder[1], ok1, grows), RunOrder[2], ok2, grows)

(* scan of run.py: the records of the log, gone when their file is         *)
(* missing, and the files of the directory the log does not hold; the      *)
(* reset pass; nothing is written.                                         *)
RunScan(r, reset) ==
    LET d == r.disk
        dir == DirNames(d)
        lf == [n \in {r.log[k].name : k \in DOMAIN r.log} |->
                    FromJson(r.log[CHOOSE k \in DOMAIN r.log : r.log[k].name = n])]
        base == [n \in DOMAIN lf \cup dir |->
                    IF n \in DOMAIN lf
                    THEN [lf[n] EXCEPT !.status = IF n \in dir THEN @ ELSE "gone"]
                    ELSE NewFile(d, n)]
        back(f) ==
            IF reset /\ f.status \notin {"done", "gone"}
            THEN [AfterMtime(d, f) EXCEPT !.status =
                    IF r.t - MtimeVal(d, f) > RESET_AGE /\ f.fc < GIVE_UP
                    THEN "new" ELSE @]
            ELSE f
    IN  [n \in DOMAIN base |-> back(base[n])]

(* What the tagger of run.py leaves behind *)
RunEffects(r, o) ==
    /\ \A n \in DOMAIN r.files : r.files[n].fc <= MaxFc
    /\ r.t <= Start + MaxSleeps * SLEEP_TIME
    /\ files' = r.files
    /\ log' = r.log
    /\ disk' = r.disk
    /\ now' = r.t
    /\ obs' = o
    /\ UNCHANGED <<logFile, locked, logData, isProcessing, activeFile, errTs,
                   cfg, loc, writes, gaveUp, chk>>

(* What the step did: process_dir went over the files; ran are the files   *)
(* the command was started on                                              *)
PassObs(r, res) == [name |-> NoName, res |-> res, ran |-> r.ran]

(* MkvTagger(): scan(reset=True), then process_dir *)
RunConstruct(ok1, ok2, grows) ==
    /\ RunEffects(RunProcessDir([RunMach EXCEPT !.files = RunScan(RunMach, TRUE)],
                                ok1, ok2, grows),
                  PassObs(RunProcessDir([RunMach EXCEPT !.files = RunScan(RunMach, TRUE)],
                                        ok1, ok2, grows), "boot"))
    /\ pc' = Idle

(* the loop of main: tagger.process_dir() *)
RunPass(ok1, ok2, grows) ==
    /\ Running
    /\ RunEffects(RunProcessDir(RunMach, ok1, ok2, grows),
                  PassObs(RunProcessDir(RunMach, ok1, ok2, grows), "pass"))
    /\ UNCHANGED pc

(* on_modified for an .mkv path *)
RunOnModified(n, ok, grows) ==
    /\ Running
    /\ RunEffects(RunProcessFile(IF n \in DOMAIN files THEN RunMach
                                 ELSE Look(RunMach, n, NewFile(disk, n)),
                                 n, ok, grows),
                  [name |-> n, res |-> "mod"])
    /\ UNCHANGED pc

InitRun ==
    /\ now = Start
    /\ cfg \in Configs
    /\ \E s \in 1..MaxSize :
            disk = [n \in Names |-> OnDisk(s, Start - RESET_AGE)]
    /\ log = Empty
    /\ logFile = "ok"
    /\ locked = FALSE
    /\ logData = Empty
    /\ files = Empty
    /\ isProcessing = FALSE
    /\ activeFile = NoName
    /\ errTs = 0
    /\ pc = [Idle EXCEPT !["event"] = "halted"]
    /\ loc = NoLoc
    /\ writes = 0
    /\ obs = NoObs
    /\ gaveUp = {}
    /\ chk = NoChk

NextRun ==
    \/ \E ok1, ok2, grows \in BOOLEAN : RunConstruct(ok1, ok2, grows)
    \/ \E ok1, ok2, grows \in BOOLEAN : RunPass(ok1, ok2, grows)
    \/ \E n \in Names, ok, grows \in BOOLEAN : RunOnModified(n, ok, grows)
    \/ \E n \in Names, s \in 1..MaxSize, t \in OldStamps \cup {now} : Write(n, s, t)

SpecRun == InitRun /\ [][NextRun]_vars

(* read_log with the timer as configured (cfg.timer is the time the error  *)
(* state lasts), followed into the read_log that handle_json_error calls.  *)
(* stuck: the thread waits in "while LOG_FILE_LOCK.locked()", or at        *)
(* "with LOG_FILE_LOCK:", for the lock, which is not released.             *)
MaxTimer == 1

Timers == 0..MaxTimer

ConfigsTimed ==
    [clean : {TRUE}, precheck : {FALSE}, tty : {FALSE}, exc : BOOLEAN,
     timer : Timers]

MachTimed(f) == [stuck |-> FALSE] @@ Mach(f)

(* error_state *)
ErrorStateTimed(m) == now - m.errTs < cfg.timer

Stuck(m) == [m EXCEPT !.stuck = TRUE]

(* the end of a with block that was entered *)
Leave(m) == IF m.stuck THEN m ELSE Release(m)

(* "if self.exc: raise err" *)
RaiseAgain(m) == IF m.stuck \/ ~cfg.exc THEN m ELSE Raise(m)

RECURSIVE ReadLogTimed(_)

(* handle_json_error *)
HandleJsonErrorTimed(m, autofix) ==
    RaiseAgain(IF autofix THEN ReadLogTimed(ErrorBegins(m, autofix))
               ELSE ErrorBegins(m, autofix))

(* read_log, lines 163-170: the log file is missing *)
CreateLog(m) ==
    IF ~LockIsFree(m.lock) THEN Stuck(m)
    ELSE Release([Acquire(m) EXCEPT !.log = Empty, !.lstate = "ok",
                                    !.ld = Empty])

(* read_log, lines 172-193: the log file is read; an empty file is no JSON *)
LoadLog(m) ==
    IF ~LockIsFree(m.lock) THEN Stuck(m)
    ELSE IF m.lstate \in {"bad", "empty"}
         THEN Leave(HandleJsonErrorTimed(Acquire(m), TRUE))
    ELSE Release([Acquire(m) EXCEPT !.ld = m.log])

ReadLogTimed(m) ==
    IF ErrorStateTimed(m) THEN m
    ELSE IF m.lstate = "none" THEN CreateLog(m)
    ELSE LoadLog(m)

(* What the step did *)
TimedObs(m) ==
    [name |-> NoName,
     res |-> IF m.stuck THEN "stuck" ELSE IF m.raised THEN "raised" ELSE "read"]

(* read_log was called and m is what it left, or where it hangs *)
ReadLogLeaves(m) ==
    /\ logData' = m.ld
    /\ log' = m.log
    /\ logFile' = m.lstate
    /\ locked' = m.lock
    /\ errTs' = IF ErrorStateTimed(m) THEN m.errTs ELSE 0
    /\ obs' = TimedObs(m)
    /\ pc' = IF m.stuck THEN [pc EXCEPT !["event"] = "stuck"]
             ELSE IF m.raised THEN Halted ELSE pc
    /\ UNCHANGED <<now, disk, files, isProcessing, activeFile, cfg, loc,
                   writes, gaveUp, chk>>

ReadLogCall ==
    /\ pc["event"] = "idle"
    /\ ReadLogLeaves(ReadLogTimed(MachTimed(NoFile)))

(* The environment: the log file is overwritten, emptied or removed *)
LogBecomes(kind) ==
    /\ writes < MaxWrites
    /\ writes' = writes + 1
    /\ logFile # kind
    /\ logFile' = kind
    /\ log' = Empty
    /\ obs' = NoObs
    /\ UNCHANGED <<now, disk, locked, logData, files, isProcessing,
                   activeFile, errTs, cfg, pc, loc, gaveUp, chk>>

InitTimed ==
    /\ now = Start
    /\ cfg \in ConfigsTimed
    /\ disk = [n \in Names |-> OnDisk(1, Start - RESET_AGE)]
    /\ \E dom \in SUBSET Names, st \in [Names -> Changes] :
            /\ log = [n \in dom |-> LoggedAs(n, st[n], 0)]
            /\ logData = [n \in dom |-> LoggedAs(n, st[n], 0)]
            /\ files = [n \in dom |-> FromJson(LoggedAs(n, st[n], 0))]
    /\ logFile = "ok"
    /\ locked = FALSE
    /\ isProcessing = FALSE
    /\ activeFile = NoName
    /\ errTs = 0
    /\ pc = Idle
    /\ loc = NoLoc
    /\ writes = 0
    /\ obs = NoObs
    /\ gaveUp = {}
    /\ chk = NoChk

NextTimed ==
    \/ ReadLogCall
    \/ \E kind \in {"bad", "empty", "none"} : LogBecomes(kind)
    \/ Tick

SpecTimed == InitTimed /\ [][NextTimed]_vars

----------------------------------------------------------------------------
(* Properties *)

(* The tagging command was started on file n in the step that led to o *)
Invoked(o, n) == o.name = n /\ o.res \in Outcomes

(* A handler or a reconciliation made the step that led to o *)
Acted(o) == o.res # "none"

(* C1: whatever the interleaving of the process_file calls of the two      *)
(* threads, at most one of them has the tagging command under way.         *)
C1_OneCommand == Cardinality({t \in Threads : pc[t] = "run"}) <= 1

DoneOnDisk(n) == n \in DOMAIN log /\ log[n].status = "done" /\ disk[n].ex

FailedThrice(n) ==
    /\ n \in DOMAIN log
    /\ log[n].status = "failed"
    /\ log[n].failed_count = GIVE_UP

(* C2: while a file is on disk and its record in the log is done, no step  *)
(* (process_file from any event, reconciliation, start) starts the tagging *)
(* command on it, and the record is still done after the step if the file  *)
(* is still on disk: the command is never started on it again.             *)
C2_DoneNotRerun ==
    [][\A n \in Names : DoneOnDisk(n) =>
            /\ ~Invoked(obs', n)
            /\ disk'[n].ex => DoneOnDisk(n)']_vars

(* process_file was called with a done file that is on disk, and returned *)
C2_Witness ==
    \E n \in Names : DoneOnDisk(n) /\ obs = [name |-> n, res |-> "ret"]

(* C3: a file that is still on disk, unchanged, after its command failed   *)
(* for the third time (status failed, failed_count 3) never has the        *)
(* command started on it again, whatever handlers, reconciliations and     *)
(* starts come in between.                                                 *)
C3_GaveUpNotRerun ==
    [][\A n \in gaveUp : ~Invoked(obs', n)]_vars

(* C4: a record that is failed with failed_count 3 has the same status    *)
(* and failed_count after every process_file call and every scan; stated   *)
(* here for the calls and scans made while its file is on disk.            *)
C4_FailedThriceKept ==
    [][\A n \in Names :
            FailedThrice(n) /\ disk[n].ex /\ Acted(obs') => FailedThrice(n)']_vars

(* C5: when the tagging command ends with exit code zero, the log holds    *)
(* the file's record (under its cleaned name) as done with the             *)
(* failed_count it had before, with and without a terminal.                *)
C5_SuccessIsDone ==
    [][obs'.res = "ok" =>
        LET n == obs'.name
            k == CleanName(n)
        IN  /\ k \in DOMAIN log'
            /\ log'[k].status = "done"
            /\ log'[k].failed_count =
                 IF n \in DOMAIN log THEN log[n].failed_count ELSE 0]_vars

(* The record of n is done, or failed with its retries used up *)
Settled(n) ==
    /\ n \in DOMAIN log
    /\ \/ log[n].status = "done"
       \/ log[n].status = "failed" /\ log[n].failed_count >= GIVE_UP

(* C6: with polling passes started again and again, each of them coming to *)
(* its end, every file that stays in the directory unchanged is in the end *)
(* done, or failed with failed_count 3, whatever log the program started   *)
(* from.                                                                   *)
C6_EventuallySettled ==
    []<>(pc["poll"] = "idle") => <>(\A n \in DirNames(disk) : Settled(n))

(* C7: a reconciliation (refresh, or the reset pass of a start) leaves     *)
(* every done record of a file in the directory done.                      *)
C7_ScanKeepsDone ==
    [][obs'.res \in {"scan", "start"} =>
        \A n \in Names : DoneOnDisk(n) =>
            n \in DOMAIN log' /\ log'[n].status = "done"]_vars

(* A start has run its reset pass over a done file old enough for it *)
C7_Witness ==
    \E n \in Names :
        DoneOnDisk(n) /\ now - disk[n].mtime > RESET_AGE /\ obs.res = "start"

(* C8: a second scan right after a scan, with nothing in between, writes   *)
(* the log the first one wrote: from every state for scan() called twice,  *)
(* with and without reset, and after every refresh for a scan that         *)
(* follows it.                                                             *)
TwiceSame(m, reset) ==
    LET s1 == Scan(m, reset).m
    IN  Scan(s1, reset).m.log = s1.log

C8_ScanIdempotent ==
    /\ \A reset \in BOOLEAN : TwiceSame(Mach(NoFile), reset)
    /\ obs.res = "scan" => Scan(Mach(NoFile), FALSE).m.log = log

(* A refresh has written a log with a gone record and a record of a file   *)
(* that is on disk.                                                        *)
C8_Witness ==
    /\ obs.res = "scan"
    /\ \E n \in DOMAIN log : log[n].status = "gone"
    /\ \E n \in DOMAIN log : disk[n].ex

(* The step made a stability check of n, the check before it was of n too, *)
(* less than the quiet period earlier, and the size of n has changed       *)
(* between the two.                                                        *)
GrewBetweenChecks(n) ==
    /\ chk.name = n /\ chk'.name = n /\ obs'.name = n
    /\ chk'.size # chk.size
    /\ chk'.at - chk.at < WAIT

(* C9: when the size of a file differs between two consecutive stability   *)
(* checks less than the quiet period apart, the later process_file call    *)
(* does not start the tagging command, and the record's status is waiting  *)
(* after it; stated here for the runs without a terminal.                  *)
C9_GrowingFileWaits ==
    [][\A n \in Names : ~cfg.tty /\ GrewBetweenChecks(n) =>
            /\ ~Invoked(obs', n)
            /\ n \in DOMAIN log' /\ log'[n].status = "waiting"]_vars

(* The log as it should be after old was renamed: one record for the new   *)
(* name, done; no record under the old name; the stripped token in no key  *)
(* and in no name field.                                                   *)
LogAfterRename(old) ==
    LET new == CleanName(old)
    IN  /\ new \in DOMAIN log
        /\ log[new].name = new
        /\ log[new].status = "done"
        /\ old \notin DOMAIN log
        /\ \A k \in DOMAIN log : ~HasPattern(k) /\ ~HasPattern(log[k].name)

(* The step renamed old: its command ended well and the file moved *)
RenameStep(old) ==
    /\ obs'.name = old /\ obs'.res = "ok"
    /\ disk[old].ex /\ ~disk'[old].ex /\ disk'[CleanName(old)].ex

(* C10: after the rename of a done file the log is as LogAfterRename says, *)
(* and it stays so through the events and reconciliations that follow, a   *)
(* deleted event for the old path included, for as long as the renamed     *)
(* file is on disk and no new file appears under the old name.             *)
C10_RenameConsistent ==
    [][\A old \in Written :
        /\ RenameStep(old) => LogAfterRename(old)'
        /\ ( /\ LogAfterRename(old)
             /\ ~disk[old].ex /\ ~disk'[old].ex
             /\ disk[CleanName(old)].ex /\ disk'[CleanName(old)].ex )
           => LogAfterRename(old)']_vars

(* process_file was called, in the step, with file n, which has a record   *)
(* in the log and is not on disk.                                          *)
CalledMissing(n) ==
    /\ obs'.name = n
    /\ n \in DOMAIN log
    /\ ~disk[n].ex

(* C11: when process_file is called for a record whose file is not on      *)
(* disk, the record is gone in the log and in self.files when the call     *)
(* returns, whatever its status was, and the tagging command is not        *)
(* started.                                                                *)
C11_MissingIsGone ==
    [][\A n \in Names : CalledMissing(n) =>
            /\ ~Invoked(obs', n)
            /\ n \in DOMAIN log' /\ log'[n].status = "gone"
            /\ n \in DOMAIN files' /\ files'[n].status = "gone"]_vars

(* The record of n is gone in the log and the file is on disk again *)
GoneButBack(n) ==
    /\ n \in DOMAIN log
    /\ log[n].status = "gone"
    /\ disk[n].ex

(* The step met file n: a scan (every scan meets every file), or a         *)
(* process_file call for n.                                                *)
Met(n) == obs'.res \in {"scan", "start"} \/ obs'.name = n

(* C12: a gone record whose file is on disk again does not stay gone when  *)
(* a scan or a process_file call next meets it.                            *)
C12_GoneComesBack ==
    [][\A n \in Names : GoneButBack(n) /\ Met(n) =>
            n \in DOMAIN log' /\ log'[n].status # "gone"]_vars

(* C13: after every scan, each record of the log whose file is not in the  *)
(* directory is gone, in the log and in what the scan returned.            *)
C13_AbsentIsGone ==
    [][obs'.res \in {"scan", "start"} =>
        \A n \in DOMAIN log' : ~disk'[n].ex =>
            /\ log'[n].status = "gone"
            /\ n \in DOMAIN files' => files'[n].status = "gone"]_vars

(* The in-memory table and the log file are in r what they are in m *)
SameStore(m, r) ==
    /\ r.files = m.files
    /\ r.log = m.log
    /\ r.lstate = m.lstate

(* process_file(files[n]), or of a new File for n, is a no-op *)
NoOpFor(m, n) ==
    LET m0 == Lookup(m, n)
        r == PfCheck(m0, FALSE)
    IN  r.ret /\ r.ran = NoName /\ SameStore(m0, r)

(* C14: in the error state refresh, scan, read_log and process_file change *)
(* neither the in-memory table nor the log file, and process_file does not *)
(* get as far as the tagging command.                                      *)
C14_ErrorStateNoOps ==
    Running /\ ErrorState(Mach(NoFile)) =>
        /\ SameStore(Mach(NoFile), Refresh(Mach(NoFile)))
        /\ SameStore(Mach(NoFile), ReadLog(Mach(NoFile)))
        /\ \A reset \in BOOLEAN :
                SameStore(Mach(NoFile), Scan(Mach(NoFile), reset).m)
        /\ \A n \in Names : NoOpFor(Mach(NoFile), n)

(* The step is one in which read_log found a log that is not one JSON      *)
(* object: the error state begins with it.                                 *)
FoundBadLog ==
    /\ Running
    /\ logFile = "bad"
    /\ ~ErrorState(Mach(NoFile))
    /\ errTs' = now

(* The error window is over and nothing has been called since *)
WindowOver ==
    /\ Running
    /\ errTs # 0
    /\ ~ErrorState(Mach(NoFile))
    /\ logFile # "bad"

(* The next refresh writes a log with a record for every file of the       *)
(* directory and fills self.files, and process_file goes on with each new  *)
(* file beyond its first checks.                                           *)
Resumes(r) ==
    /\ ~r.raised
    /\ r.lstate = "ok"
    /\ \A n \in DirNames(disk) :
            /\ n \in DOMAIN r.log
            /\ n \in DOMAIN r.files
            /\ r.files[n].status = "new" => ~PfCheck(Lookup(r, n), FALSE).ret

C17_NoLostUpdate ==
    pc = Idle =>
        \A n \in DOMAIN files :
            /\ n \in DOMAIN log
            /\ log[n].status = files[n].status
            /\ log[n].failed_count = files[n].fc

(* Thread t writes the log in this step, at the end of a status change of  *)
(* a file other than n.                                                    *)
SavesOther(t, n) ==
    /\ pc[t] = "save"
    /\ pc'[t] = "idle"
    /\ loc[t].f.path # n

(* C18: once the log holds a file as done, no later write of the log holds *)
(* it as anything else while the file is on disk; stated here for the      *)
(* writes that end the status change of another file, which have no        *)
(* business with the done record.                                          *)
C18_DoneNotRegressed ==
    [][\A t \in Threads, n \in Names :
            DoneOnDisk(n) /\ SavesOther(t, n) /\ disk'[n].ex =>
                n \in DOMAIN log' /\ log'[n].status = "done"]_vars

(* C19: the failed_count the log holds for a file never decreases from one *)
(* step to the next, as long as the file's record stays in the log.        *)
C19_FailedCountMonotone ==
    [][\A n \in DOMAIN log \cap DOMAIN log' :
            log'[n].failed_count >= log[n].failed_count]_vars

(* The failed_count the log holds for n, 0 for a file it does not hold     *)
Count(l, n) == IF n \in DOMAIN l THEN l[n].failed_count ELSE 0

(* The command was invoked for n in this step and failed *)
FailedRun(n) == obs'.name = n /\ obs'.res = "fail"

(* C20: the failed_count of a record goes up by one in a step where the    *)
(* command was invoked for the file and failed, and changes in no other    *)
(* step, whatever status changes the step asks for.                        *)
C20_CountsFailedRuns ==
    [][\A n \in DOMAIN log' :
            /\ FailedRun(n) => Count(log', n) = Count(log, n) + 1
            /\ ~FailedRun(n) /\ n \in DOMAIN log =>
                    Count(log', n) = Count(log, n)]_vars

(* The log holds a record of n that was made from a file on disk: its      *)
(* mtime is the file's, not the 0 of a file that was never there.          *)
LoggedFromDisk(n) == n \in DOMAIN log /\ FromIso(log[n].mtime) # 0

(* A reconciliation (refresh, or the scans of a start) made this step *)
ByScan == obs'.res \in {"scan", "start"}

(* C21: a record that becomes gone is kept by every scan during the grace  *)
(* period that follows its disappearance.  No file disappears before Start *)
(* and the clock stays within MaxElapsed of Start, less than the grace     *)
(* period: every scan is within the grace period of every disappearance,   *)
(* and so keeps the record of every file that was on disk.                 *)
C21_GoneKeptInGrace ==
    [][ByScan /\ MaxElapsed < TOO_OLD =>
            \A n \in Names : LoggedFromDisk(n) => n \in DOMAIN log']_vars

(* The tagging command was invoked for n in this step and ended with a     *)
(* non-zero exit code; the call is over.                                   *)
CommandFailed(n) == obs'.name = n /\ obs'.res = "fail"

(* C22: a non-zero exit code of the command is not fatal: no exception     *)
(* leaves process_file, the record of the file is failed in the table and  *)
(* in the log when the call returns, and the tagger is free for the next   *)
(* file.                                                                   *)
C22_FailureNotFatal ==
    [][\A n \in Names : CommandFailed(n) =>
            /\ Running'
            /\ n \in DOMAIN log' /\ log'[n].status = "failed"
            /\ n \in DOMAIN files' /\ files'[n].status = "failed"
            /\ ~isProcessing' /\ activeFile' = NoName]_vars

(* The statuses the setter lets through when the log holds status l for    *)
(* the file ("none": the log does not hold the file)                       *)
LetThrough(l) ==
    CASE l \in {"new", "ready", "none"} -> Status
      [] l \in {"done", "gone"} -> {"new"}
      [] l = "waiting" -> {"done", "ready", "processing"}
      [] l = "processing" -> {"done", "ready", "failed"}
      [] l = "failed" -> {"new", "ready"}

LoggedStatus(n) == IF n \in DOMAIN log THEN log[n].status ELSE "none"

(* The setter was run for n with value v in this step *)
WasSet(n, v) == obs'.res = "set" /\ obs'.name = n /\ obs'.value = v

(* C23: the setter, run with value v for a file the log holds with status  *)
(* l, stores v when l lets v through, and l in every other case; a file    *)
(* the log does not hold gets v.                                           *)
C23_SetterTable ==
    [][\A n \in Names, v \in Status : WasSet(n, v) =>
            /\ n \in DOMAIN files' /\ n \in DOMAIN log'
            /\ files'[n].status =
                    IF v \in LetThrough(LoggedStatus(n)) THEN v
                    ELSE LoggedStatus(n)
            /\ log'[n].status = files'[n].status]_vars

(* The setter has just kept the logged status of a waiting file against    *)
(* the value it was run with                                               *)
C23_Witness ==
    /\ obs.res = "set"
    /\ obs.value = "new"
    /\ obs.name \in DOMAIN log
    /\ log[obs.name].status = "waiting"

(* The program was started in this step: refresh, then scan(reset=True) *)
Started == obs'.res = "start"

(* The record the log holds for n is one the reset pass is to set to new:  *)
(* not done or gone, its file on disk and last written more than a minute  *)
(* ago, and fewer than three failures.                                     *)
Resettable(n) ==
    /\ log[n].status \notin {"done", "gone"}
    /\ disk[n].ex
    /\ now - disk[n].mtime > RESET_AGE
    /\ log[n].failed_count < GIVE_UP

(* C24: the reset pass of a start sets to new exactly the records that are *)
(* not done or gone, whose file is on disk and older than a minute, with   *)
(* fewer than three failures; every other record of a file on disk keeps   *)
(* its status, and no record's failed_count changes.                       *)
C24_ResetPass ==
    [][Started =>
        /\ \A n \in DOMAIN log : disk[n].ex =>
                /\ n \in DOMAIN log'
                /\ log'[n].status =
                        IF Resettable(n) THEN "new" ELSE log[n].status
                /\ n \in DOMAIN files'
                /\ files'[n].status = log'[n].status
        /\ \A n \in DOMAIN log \cap DOMAIN log' :
                log'[n].failed_count = log[n].failed_count]_vars

(* A start has just set a record that had failed back to new *)
C24_Witness ==
    /\ obs.res = "start"
    /\ \E n \in DOMAIN log :
            /\ log[n].status = "new"
            /\ log[n].failed_count \in 1..(GIVE_UP - 1)
            /\ disk[n].ex

(* C25: between two handlers no process_file invocation is running, and    *)
(* the active-file marker is clear: every invocation that set it has       *)
(* cleared it on its way out, by return or by exception.                   *)
C25_MarkerCleared == ~isProcessing /\ activeFile = NoName

(* Thread t is about to run process_file, lines 317-360, for its file      *)
(* while the other thread's invocation, for another file, holds the        *)
(* marker.                                                                 *)
HeldByOther(t) ==
    /\ pc[t] = "check"
    /\ pc[Other(t)] = "run"
    /\ isProcessing
    /\ activeFile # loc[t].f.path

(* Thread t runs lines 317-360 in this step *)
Checks(t) == pc[t] = "check" /\ pc'[t] # "check"

(* C26: a process_file call made while another file's invocation holds the *)
(* marker returns at once: it does not go on to the command, no record's   *)
(* status changes and the log is not written.                              *)
C26_BacksOff ==
    [][\A t \in Threads : HeldByOther(t) /\ Checks(t) =>
            /\ pc'[t] = "idle"
            /\ log' = log
            /\ \A n \in DOMAIN files :
                    n \in DOMAIN files' /\ files'[n].status = files[n].status]_vars

(* The record of n is waiting, in self.files and in the log, and its file  *)
(* is still unstable: written less than the quiet period ago, or of        *)
(* another size than the File object saw when it last looked.              *)
WaitingUnstable(n) ==
    /\ n \in DOMAIN files /\ files[n].status = "waiting"
    /\ n \in DOMAIN log /\ log[n].status = "waiting"
    /\ disk[n].ex
    /\ \/ now - disk[n].mtime < WAIT
       \/ disk[n].size # files[n].size

(* C27: process_file for a record that is already waiting, while the file  *)
(* is still unstable, returns without the command, changes no status and   *)
(* leaves the log as it is.  on_modified is the handler that does nothing  *)
(* but call process_file.                                                  *)
C27_WaitingStaysPut ==
    [][\A n \in Names : WaitingUnstable(n) /\ OnModified(n, FALSE) =>
            /\ obs'.res = "ret"
            /\ log' = log
            /\ \A k \in DOMAIN files :
                    k \in DOMAIN files' /\ files'[k].status = files[k].status]_vars

(* The record of n is not done, and its file is there to be probed *)
NotYetDone(n) ==
    /\ disk[n].ex
    /\ n \in DOMAIN files => files[n].status # "done"
    /\ n \in DOMAIN log => log[n].status # "done"

(* C28: with the precheck on, a probe that prints something for a file     *)
(* that is not yet done has the record marked done, and the tagging        *)
(* command is not run.                                                     *)
C28_ProbedFileDone ==
    [][\A n \in Names : cfg.precheck /\ NotYetDone(n) /\ OnModified(n, TRUE) =>
            /\ ~Invoked(obs', n)
            /\ \E k \in DOMAIN log' :
                    log'[k].status = "done" /\ files'[k].orig = n]_vars

Renames == {"rename", "rename_file"}

(* C29: File.rename and rename_file called for a record whose status is    *)
(* not done leave the files on disk, self.files and the log as they are.   *)
C29_RenameOnlyDone ==
    [][\A n \in Names :
            obs'.res \in Renames /\ obs'.name = n /\ files[n].status # "done" =>
                disk' = disk /\ files' = files /\ logData' = logData /\ log' = log]_vars

(* rename was called for a file that has the cleaning pattern in its name  *)
(* and whose record is not done                                            *)
C29_Witness ==
    /\ obs.res \in Renames
    /\ obs.name \in DOMAIN files
    /\ CleanName(obs.name) # obs.name
    /\ files[obs.name].status = "waiting"

(* C30: a record that is done or gone in self.files when scan is called,   *)
(* and for which the reloaded log holds a status, has that in-memory       *)
(* status in what scan returns and in the log scan writes.  A record that  *)
(* is done is always among them; one that is gone is, unless the same scan *)
(* removes it as too old.                                                  *)
C30_MemoryWins ==
    [][obs'.res = "scan" =>
            \A n \in DOMAIN files \cap DOMAIN log :
                files[n].status \in {"done", "gone"} =>
                    /\ n \in DOMAIN log' \/ files[n].status = "gone"
                    /\ n \in DOMAIN log' => log'[n].status = files[n].status
                    /\ n \in DOMAIN files' => files'[n].status = files[n].status]_vars

(* scan was called while the log held another status for a record that is  *)
(* done in self.files, and the log now holds done                          *)
C30_Witness ==
    /\ obs.res = "scan"
    /\ "over" \in DOMAIN obs
    /\ \E n \in obs.over : files[n].status = "done" /\ log[n].status = "done"

(* C31: a read_log that is called while another thread writes the log, in  *)
(* a status change, a rename or a scan, reads the file only when that      *)
(* write is over: the file holds one whole JSON object, and what read_log  *)
(* takes into _log_data is the content the last write left.                *)
C31_ReadsWhole ==
    [][\A t \in Threads : pc[t] = "wait" /\ pc'[t] = "idle" =>
            /\ logFile = "ok"
            /\ logData' = log
            /\ log' = log
            /\ obs'.whole]_vars

(* read_log was called while the other thread had the log file open and    *)
(* emptied, and has read records                                           *)
C31_Witness ==
    /\ obs.res = "read"
    /\ obs.during
    /\ logData # Empty
    /\ logData = log

WriteFailed == "op" \in DOMAIN obs'

(* C32: when a write of the log fails, in scan or in a status change, the  *)
(* error state begins, and without --exc no exception leaves the           *)
(* operation.                                                              *)
C32_WriteFailureContained ==
    [][WriteFailed =>
            /\ now - errTs' < TIMER
            /\ ~cfg.exc => obs'.res # "raised"]_vars

(* The same for the write in scan, when json.dump is what fails *)
C32_ScanDumpContained ==
    [][WriteFailed /\ obs'.op = "scan" /\ logFile' = "bad" =>
            /\ now - errTs' < TIMER
            /\ ~cfg.exc => obs'.res # "raised"]_vars

(* C33: in run.py, a pass of process_dir over a record that is failed with *)
(* failed_count 3 does not start the command on it and leaves its status   *)
(* and its failed_count as they are.                                       *)
C33_GivenUpUntouched ==
    [][obs'.res = "pass" =>
            \A n \in DOMAIN files :
                files[n].status = "failed" /\ files[n].fc = GIVE_UP =>
                    /\ n \notin obs'.ran
                    /\ files'[n].status = "failed"
                    /\ files'[n].fc = GIVE_UP
                    /\ log'[n].failed_count = GIVE_UP]_vars

(* The part of it that is about the command and the status *)
C33_GivenUpNotRerun ==
    [][obs'.res = "pass" =>
            \A n \in DOMAIN files :
                files[n].status = "failed" /\ files[n].fc >= GIVE_UP =>
                    n \notin obs'.ran /\ files'[n].status = "failed"]_vars

ReadLogReturned == obs'.res \in {"read", "raised", "stuck"}

(* C34: read_log comes to an end and leaves LOG_FILE_LOCK released,        *)
(* whatever the log file holds, with and without --exc and for every       *)
(* timer, 0 included.                                                      *)
C34_ReadLogEnds ==
    [][ReadLogReturned => obs'.res # "stuck" /\ ~locked']_vars

(* The same for the timers above 0 *)
C34_ReadLogEndsTimerOn ==
    [][ReadLogReturned /\ cfg.timer > 0 => obs'.res # "stuck" /\ ~locked']_vars

(* Thread t is at the tagging command for the file it holds *)
CommandRuns(t) == pc[t] = "run"

(* C35: while the tagging command runs for a file, the log holds the file  *)
(* as processing.                                                          *)
C35_RunningIsProcessing ==
    \A t \in Threads :
        CommandRuns(t) =>
            /\ loc[t].f.path \in DOMAIN log
            /\ log[loc[t].f.path].status = "processing"

(* self.files holds records, and the file of one of them is on disk *)
TracksFilesOnDisk == \E n \in DOMAIN files : disk[n].ex

(* C36: a refresh does not leave self.files empty when it held records     *)
(* whose files are still on disk, also when the log is found malformed in  *)
(* the same refresh.                                                       *)
C36_RefreshKeepsTable ==
    [][obs'.res = "scan" /\ TracksFilesOnDisk => files' # Empty]_vars

(* The file of n is unstable: modified less than WAIT seconds ago, or of a *)
(* size other than the one its File object saw last.                       *)
FileUnstable(n) ==
    /\ disk[n].ex
    /\ \/ now - disk[n].mtime < WAIT
       \/ n \in DOMAIN files /\ disk[n].size # files[n].size

(* The record made for file n is set to done by the step *)
DoneAfter(n) ==
    /\ \E k \in DOMAIN files' : files'[k].orig = n /\ files'[k].status = "done"
    /\ ~\E k \in DOMAIN files : files[k].orig = n /\ files[k].status = "done"

(* File n is gone from the disk after the step, under a handler for n *)
RenamedAway(n) == obs'.name = n /\ disk[n].ex /\ ~disk'[n].ex

(* C37: no step sets the record of an unstable file to done or renames the *)
(* file, whether the precheck or the tagging command vouches for it.       *)
C37_UnstableNotDone ==
    [][\A n \in Names : NotYetDone(n) /\ FileUnstable(n) =>
            ~DoneAfter(n) /\ ~RenamedAway(n)]_vars

(* C37, the tagging path alone: with the precheck off *)
C37_UnstableNotTagged ==
    [][\A n \in Names : ~cfg.precheck /\ NotYetDone(n) /\ FileUnstable(n) =>
            ~DoneAfter(n) /\ ~RenamedAway(n)]_vars

(* The number of .mkv files on disk *)
FilesOnDisk(d) == Cardinality({n \in Names : d[n].ex})

(* C38: a rename leaves as many files on disk, as many records in          *)
(* self.files and as many records in the log as there were before it: the  *)
(* new name is not the name of another tracked file.                       *)
C38_RenameKeepsCounts ==
    [][\A n \in Names : RenamedAway(n) =>
            /\ FilesOnDisk(disk') = FilesOnDisk(disk)
            /\ Cardinality(DOMAIN files') = Cardinality(DOMAIN files)
            /\ Cardinality(DOMAIN log') = Cardinality(DOMAIN log)]_vars

(* C38 for the tagger: no handler that renames a file leaves fewer files   *)
(* on disk or fewer records than it found.                                 *)
C38_RenameLosesNothing ==
    [][\A n \in Names : RenamedAway(n) =>
            /\ FilesOnDisk(disk') >= FilesOnDisk(disk)
            /\ Cardinality(DOMAIN files') >= Cardinality(DOMAIN files)
            /\ Cardinality(DOMAIN log') >= Cardinality(DOMAIN log)]_vars

(* No handler is under way, the program runs and is not in the error state *)
AtRest == pc = Idle /\ ~(now - errTs < TIMER)

====
